---- MODULE Spec2Model ----
(***************************************************************************)
(* A model of ga-beacon.go: the HTTP handler of the GA4 beacon, the event  *)
(* it builds (logHit) and the POST it issues (sendToGA).                    *)
(*                                                                         *)
(* Go strings are sequences of one-character strings, so that Trim,        *)
(* SplitN, Replace and hex.EncodeToString are computed as the code         *)
(* computes them.  Map keys (query keys, event parameter names) are TLA+   *)
(* strings; "custom_" \o key is Go's "custom_"+key.                        *)
(***************************************************************************)
EXTENDS Naturals, Sequences, FiniteSets, TLC

\* ------------------------------------------------------------------ bounds

\* Longest URL path, counted in characters after the leading "/".
MaxPathLen == 3
\* Largest number of distinct keys in a query string.
MaxQueryKeys == 3

\* ----------------------------------------------------------- Go's strings

Slash == "/"
EmptyStr == << >>
HttpScheme == <<"h", "t", "t", "p", ":", "/", "/">>
HttpsScheme == <<"h", "t", "t", "p", "s", ":", "/", "/">>

\* strings.HasPrefix
HasPrefix(s, p) == Len(s) >= Len(p) /\ SubSeq(s, 1, Len(p)) = p

\* strings.Index: the 1-based position of the first occurrence of old in s,
\* 0 when there is none (Go: 0-based, -1).
Index(s, old) ==
  IF \E i \in 1..(Len(s) + 1) : i + Len(old) - 1 <= Len(s) /\ SubSeq(s, i, i + Len(old) - 1) = old
  THEN CHOOSE i \in 1..(Len(s) + 1) :
         /\ i + Len(old) - 1 <= Len(s)
         /\ SubSeq(s, i, i + Len(old) - 1) = old
         /\ \A j \in 1..(i - 1) : SubSeq(s, j, j + Len(old) - 1) # old
  ELSE 0

\* strings.Replace(s, old, new, n) for n >= 0 and a non-empty old.
RECURSIVE Replace(_, _, _, _)
Replace(s, old, new, n) ==
  LET i == Index(s, old)
  IN IF n = 0 \/ i = 0
     THEN s
     ELSE SubSeq(s, 1, i - 1) \o new
          \o Replace(SubSeq(s, i + Len(old), Len(s)), old, new, n - 1)

\* strings.TrimLeft / TrimRight / Trim with a one-character cutset.
RECURSIVE TrimLeft(_, _)
TrimLeft(s, c) == IF s # << >> /\ Head(s) = c THEN TrimLeft(Tail(s), c) ELSE s

RECURSIVE TrimRight(_, _)
TrimRight(s, c) ==
  IF s # << >> /\ s[Len(s)] = c THEN TrimRight(SubSeq(s, 1, Len(s) - 1), c) ELSE s

Trim(s, c) == TrimRight(TrimLeft(s, c), c)

\* strings.SplitN(s, sep, n) for n >= 1 and a one-character sep: at most n
\* substrings, the last one the unsplit remainder.
RECURSIVE SplitN(_, _, _)
SplitN(s, sep, n) ==
  LET i == Index(s, <<sep>>)
  IN IF n = 1 \/ i = 0
     THEN <<s>>
     ELSE <<SubSeq(s, 1, i - 1)>> \o SplitN(SubSeq(s, i + 1, Len(s)), sep, n - 1)

\* strconv.FormatInt(n, 10) for n >= 0.
DecDigits == <<"0", "1", "2", "3", "4", "5", "6", "7", "8", "9">>

RECURSIVE FormatInt(_)
FormatInt(n) ==
  IF n < 10 THEN <<DecDigits[n + 1]>> ELSE FormatInt(n \div 10) \o <<DecDigits[(n % 10) + 1]>>

\* ------------------------------------------------------- generateUUID

\* The bitwise | and & of two bytes.
RECURSIVE BitOr(_, _)
BitOr(a, b) ==
  IF a = 0 THEN b
  ELSE IF b = 0 THEN a
  ELSE (IF a % 2 = 1 \/ b % 2 = 1 THEN 1 ELSE 0) + 2 * BitOr(a \div 2, b \div 2)

RECURSIVE BitAnd(_, _)
BitAnd(a, b) ==
  IF a = 0 \/ b = 0 THEN 0
  ELSE (IF a % 2 = 1 /\ b % 2 = 1 THEN 1 ELSE 0) + 2 * BitAnd(a \div 2, b \div 2)

\* encoding/hex: the lower-case table, two digits per byte.
HexTable == <<"0", "1", "2", "3", "4", "5", "6", "7",
              "8", "9", "a", "b", "c", "d", "e", "f">>

RECURSIVE EncodeToString(_)
EncodeToString(b) ==
  IF b = << >> THEN << >>
  ELSE <<HexTable[(Head(b) \div 16) + 1], HexTable[BitAnd(Head(b), 15) + 1]>>
       \o EncodeToString(Tail(b))

\* What rand.Read may fill the 16 bytes with: b[6] and b[8] each all zeros or
\* all ones, the other fourteen bytes 0xA5.
RandReads ==
  {[i \in 1..16 |-> IF i = 7 THEN b6 ELSE IF i = 9 THEN b8 ELSE 165] :
     b6 \in {0, 255}, b8 \in {0, 255}}

\* Lines 110-111: b[8] = (b[8] | 0x80) & 0xBF; b[6] = (b[6] | 0x40) & 0x4F.
\* Go's b[8] and b[6] are the 9th and 7th elements.
MaskBytes(b) ==
  [b EXCEPT ![9] = BitAnd(BitOr(b[9], 128), 191),
            ![7] = BitAnd(BitOr(b[7], 64), 79)]

\* generateUUID on a successful rand.Read of b.
generateUUID(b) == EncodeToString(MaskBytes(b))

\* ------------------------------------------------------------- requests

\* The characters of a URL path after its leading "/".
PathChars == {"a", "/"}
Paths ==
  {<<Slash>> \o s : s \in UNION {[1..k -> PathChars] : k \in 0..MaxPathLen}}

\* url.ParseQuery's result for each key that may occur in the raw query: a
\* key always has at least one value ("" for a key without "=").
\* src stands for "?src=n&src=w", custom_src for "?custom_src=m".
QueryKeys ==
  {"pixel", "gif", "flat", "flat-gif", "useReferer", "referer", "src", "custom_src"}
RawValues ==
  [k \in QueryKeys |->
     CASE k = "src" -> <<<<"n">>, <<"w">>>>
       [] k = "custom_src" -> <<<<"m">>>>
       [] k = "referer" -> <<<<"x">>>>
       [] OTHER -> <<EmptyStr>>]
Queries ==
  {[k \in ks |-> RawValues[k]] :
     ks \in {S \in SUBSET QueryKeys : Cardinality(S) <= MaxQueryKeys}}

\* The Referer header: absent (""), a bare scheme, with either scheme, none.
Referers ==
  {EmptyStr, HttpScheme, HttpScheme \o <<"b">>, HttpsScheme \o <<"b", "/", "c">>, <<"b">>}

\* The cid cookie of the request: none, one with an empty value, one with a value.
NoCookie == [present |-> FALSE, value |-> EmptyStr]
Cookies ==
  {NoCookie, [present |-> TRUE, value |-> EmptyStr], [present |-> TRUE, value |-> <<"c", "1">>]}

\* A reading of time.Now(), with its renderings by Unix(), Format(time.RFC3339)
\* and Format(http.TimeFormat) (the server's zone being UTC).
Times ==
  {[unix |-> 1700000000,
    rfc3339 |-> <<"2", "0", "2", "3", "-", "1", "1", "-", "1", "4", "T", "2", "2", ":", "1", "3", ":", "2", "0", "Z">>,
    httpTime |-> <<"T", "u", "e", ",", " ", "1", "4", " ", "N", "o", "v", " ", "2", "0", "2", "3", " ", "2", "2", ":", "1", "3", ":", "2", "0", " ", "G", "M", "T">>]}

UserAgent == <<"g", "o">>
RemoteAddr == <<"1", ":", "8">>

Requests ==
  [path : Paths, query : Queries, referer : Referers, cookie : Cookies,
   ua : {UserAgent}, ip : {RemoteAddr}, now : Times]

\* Config, read once by loadConfig before the server listens.
config == [MeasurementID |-> "G-XXXXXXXXXX", APISecret |-> "secret"]

\* ------------------------------------------------------- logHit, sendToGA

\* isReservedParam with "referer" missing from the reserved list.
isReservedParamNoReferer(param) ==
  param \in {"pixel", "gif", "flat", "flat-gif", "useReferer"}

\* isReservedParam
isReservedParam(param) ==
  param \in {"referer", "pixel", "gif", "flat", "flat-gif", "useReferer"}

\* The keys of q that logHit's loop forwards (line 165).
CustomKeys(q) == {k \in DOMAIN q : Len(q[k]) > 0 /\ ~isReservedParam(k)}

\* The key forwarded under its own name, without the prefix.
CustomNameAsIs(k) == k

\* The name logHit gives the parameter of query key k (line 166).
CustomName(k) == "custom_" \o k

\* The event logHit builds: the four fixed parameters, then one assignment
\* event.Params["custom_"+key] = values[0] for each forwarded key.
EventParams(q, ua, ip, now) ==
  LET fixed == [session_id |-> FormatInt(now.unix),
                user_agent |-> ua,
                ip_address |-> ip,
                timestamp |-> now.rfc3339]
      custom == {CustomName(k) : k \in CustomKeys(q)}
  IN [n \in DOMAIN fixed \cup custom |->
        IF n \in custom
        THEN q[CHOOSE k \in CustomKeys(q) : CustomName(k) = n][1]
        ELSE fixed[n]]

GA4Event(q, ua, ip, now) == [Name |-> "page_view", Params |-> EventParams(q, ua, ip, now)]

\* The payload logHit hands to sendToGA.  The params argument (the path
\* segments) is accepted and not read by logHit.
logHit(prms, q, ua, ip, id, now) ==
  [ClientID |-> id, Events |-> <<GA4Event(q, ua, ip, now)>>]

\* The request sendToGA builds for client.Do: the payload is the JSON body.
GARequest(ua, payload) ==
  [method |-> "POST",
   measurement_id |-> config.MeasurementID,
   api_secret |-> config.APISecret,
   userAgent |-> ua,
   contentType |-> "application/json",
   body |-> payload]

\* ------------------------------------------------------------ handler

\* Line 191.
PathParams(r) == SplitN(Trim(r.path, Slash), Slash, 2)

\* Lines 192-198: the parsed query, with query.Set("referer", refOrg) when
\* the Referer header is not empty.
QueryOf(r) ==
  IF r.referer # EmptyStr
  THEN [k \in DOMAIN r.query \cup {"referer"} |->
          IF k = "referer" THEN <<r.referer>> ELSE r.query[k]]
  ELSE r.query

\* Line 209.
StripScheme(refOrg) ==
  Replace(Replace(refOrg, HttpScheme, EmptyStr, 1), HttpsScheme, EmptyStr, 1)

\* The rewrite taking place for any Referer, the useReferer key not looked at.
UsesRefererWithoutFlag(r) ==
  /\ Len(r.referer) # 0
  /\ Len(StripScheme(r.referer)) # 0

\* Lines 207-216: whether the useReferer rewrite of params takes place.
UsesReferer(r) ==
  /\ "useReferer" \in DOMAIN QueryOf(r)
  /\ Len(r.referer) # 0
  /\ Len(StripScheme(r.referer)) # 0

\* Lines 191-216: params as the handler has them at line 218.
EffectiveParams(r) ==
  IF UsesReferer(r)
  THEN SplitN(Trim(r.path, Slash) \o <<Slash>> \o StripScheme(r.referer), Slash, 2)
  ELSE PathParams(r)

\* The flags tested in another order: gif before pixel.
SelectBodyGifFirst(q) ==
  IF "gif" \in DOMAIN q THEN [contentType |-> "image/gif", body |-> "badgeGif"]
  ELSE IF "pixel" \in DOMAIN q THEN [contentType |-> "image/gif", body |-> "pixel"]
  ELSE IF "flat" \in DOMAIN q THEN [contentType |-> "image/svg+xml", body |-> "badgeFlat"]
  ELSE IF "flat-gif" \in DOMAIN q THEN [contentType |-> "image/gif", body |-> "badgeFlatGif"]
  ELSE [contentType |-> "image/svg+xml", body |-> "badge"]

\* Lines 258-274: the body and its Content-Type, by the first flag present.
SelectBody(q) ==
  IF "pixel" \in DOMAIN q THEN [contentType |-> "image/gif", body |-> "pixel"]
  ELSE IF "gif" \in DOMAIN q THEN [contentType |-> "image/gif", body |-> "badgeGif"]
  ELSE IF "flat" \in DOMAIN q THEN [contentType |-> "image/svg+xml", body |-> "badgeFlat"]
  ELSE IF "flat-gif" \in DOMAIN q THEN [contentType |-> "image/gif", body |-> "badgeFlatGif"]
  ELSE [contentType |-> "image/svg+xml", body |-> "badge"]

\* The cookie scoped to the page segment instead of the account.
CidCookiePagePath(prms, id) == [Name |-> "cid", Value |-> id, Path |-> <<Slash>> \o prms[2]]

\* Line 241: the cookie the handler sets for a generated identity.
CidCookie(prms, id) == [Name |-> "cid", Value |-> id, Path |-> <<Slash>> \o prms[1]]

\* Lines 250-252: the headers of a tracked response.
TrackingHeaders(id, now) ==
  [h \in {"Cache-Control", "Expires", "CID"} |->
     CASE h = "Cache-Control" -> "no-cache, no-store, must-revalidate, private"
       [] h = "Expires" -> now.httpTime
       [] h = "CID" -> id]

\* w.Header().Set(name, value) for each name of hs.
SetHeader(header, hs) ==
  [h \in DOMAIN header \cup DOMAIN hs |-> IF h \in DOMAIN hs THEN hs[h] ELSE header[h]]

\* --------------------------------------------------------------- state

VARIABLES
  pc,       \* where the handler of the current request is
  req,      \* the request being handled
  params,   \* handler's params
  query,    \* handler's query
  cid,      \* handler's cid
  w,        \* the ResponseWriter: status, headers, cookies set, bodies written
  posts,    \* the requests handed to client.Do, in order
  sendErr   \* what sendToGA returned: "none" (not returned), "nil", "error"

vars == <<pc, req, params, query, cid, w, posts, sendErr>>

NoRequest ==
  [path |-> <<Slash>>, query |-> << >>, referer |-> EmptyStr, cookie |-> NoCookie,
   ua |-> UserAgent, ip |-> RemoteAddr, now |-> CHOOSE t \in Times : TRUE]

FreshWriter == [status |-> 0, header |-> << >>, cookies |-> << >>, body |-> << >>]

Init ==
  /\ pc = "idle"
  /\ req = NoRequest
  /\ params = << >>
  /\ query = << >>
  /\ cid = EmptyStr
  /\ w = FreshWriter
  /\ posts = << >>
  /\ sendErr = "none"

\* The server hands a request to handler.
Receive ==
  /\ pc = "idle"
  /\ \E r \in Requests : req' = r
  /\ pc' = "start"
  /\ UNCHANGED <<params, query, cid, w, posts, sendErr>>

\* Lines 190-204: the root path is redirected.
Redirect ==
  /\ pc = "start"
  /\ Len(PathParams(req)[1]) = 0
  /\ params' = PathParams(req)
  /\ query' = QueryOf(req)
  /\ w' = [w EXCEPT !.status = 302,
                    !.header = SetHeader(w.header, [Location |-> "https://github.com/igrigorik/ga-beacon"]),
                    !.body = Append(w.body, "redirect")]
  /\ pc' = "done"
  /\ UNCHANGED <<req, cid, posts, sendErr>>

\* Lines 190-232: a single segment gets the account page.
AccountPage ==
  /\ pc = "start"
  /\ Len(PathParams(req)[1]) # 0
  /\ Len(EffectiveParams(req)) = 1
  /\ params' = EffectiveParams(req)
  /\ query' = QueryOf(req)
  /\ w' = [w EXCEPT !.status = 200,
                    !.body = Append(w.body,
                               [Account |-> EffectiveParams(req)[1], Referer |-> req.referer])]
  /\ pc' = "done"
  /\ UNCHANGED <<req, cid, posts, sendErr>>

\* Lines 190-234: two segments go on to tracking.
BeginTracked ==
  /\ pc = "start"
  /\ Len(PathParams(req)[1]) # 0
  /\ Len(EffectiveParams(req)) # 1
  /\ params' = EffectiveParams(req)
  /\ query' = QueryOf(req)
  /\ pc' = "identity"
  /\ UNCHANGED <<req, cid, w, posts, sendErr>>

\* The cookie of the request not used: an identity is generated and set anyway.
ExistingCIDIgnored ==
  /\ pc = "identity"
  /\ req.cookie.present
  /\ \E b \in RandReads :
       /\ cid' = generateUUID(b)
       /\ w' = [w EXCEPT !.cookies = Append(w.cookies, CidCookie(params, generateUUID(b)))]
  /\ pc' = "track"
  /\ UNCHANGED <<req, params, query, posts, sendErr>>

\* Lines 236, 243-246: the cid cookie of the request is the identity.
ExistingCID ==
  /\ pc = "identity"
  /\ req.cookie.present
  /\ cid' = req.cookie.value
  /\ pc' = "track"
  /\ UNCHANGED <<req, params, query, w, posts, sendErr>>

\* Lines 236-242: no cookie, generateUUID succeeds and the cookie is set.
NewCID ==
  /\ pc = "identity"
  /\ ~req.cookie.present
  /\ \E b \in RandReads :
       /\ cid' = generateUUID(b)
       /\ w' = [w EXCEPT !.cookies = Append(w.cookies, CidCookie(params, generateUUID(b)))]
  /\ pc' = "track"
  /\ UNCHANGED <<req, params, query, posts, sendErr>>

\* Lines 236-238: no cookie and rand.Read fails; cid stays "".
UUIDFails ==
  /\ pc = "identity"
  /\ ~req.cookie.present
  /\ cid' = EmptyStr
  /\ pc' = "track"
  /\ UNCHANGED <<req, params, query, w, posts, sendErr>>

\* Lines 248-252: with an identity, the cache headers and CID are set.
SetHeaders ==
  /\ pc = "track"
  /\ Len(cid) # 0
  /\ w' = [w EXCEPT !.header = SetHeader(w.header, TrackingHeaders(cid, req.now))]
  /\ pc' = "logHit"
  /\ UNCHANGED <<req, params, query, cid, posts, sendErr>>

\* Line 248: without an identity nothing is tracked.
SkipTracking ==
  /\ pc = "track"
  /\ Len(cid) = 0
  /\ pc' = "respond"
  /\ UNCHANGED <<req, params, query, cid, w, posts, sendErr>>

\* Line 254, logHit and sendToGA down to client.Do: the POST is issued.
PostHit ==
  /\ pc = "logHit"
  /\ posts' = Append(posts, GARequest(req.ua, logHit(params, query, req.ua, req.ip, cid, req.now)))
  /\ pc' = "awaitGA"
  /\ UNCHANGED <<req, params, query, cid, w, sendErr>>

\* client.Do returns a response (of any status): sendToGA returns nil.
GAAnswers ==
  /\ pc = "awaitGA"
  /\ sendErr' = "nil"
  /\ pc' = "respond"
  /\ UNCHANGED <<req, params, query, cid, w, posts>>

\* A failed POST tried again.
GAFailsRetries ==
  /\ pc = "awaitGA"
  /\ sendErr' = "error"
  /\ pc' = "logHit"
  /\ UNCHANGED <<req, params, query, cid, w, posts>>

\* client.Do returns an error: sendToGA logs and returns it, handler drops it.
GAFails ==
  /\ pc = "awaitGA"
  /\ sendErr' = "error"
  /\ pc' = "respond"
  /\ UNCHANGED <<req, params, query, cid, w, posts>>

\* The endpoint accepts the connection and never answers: http.Client{} has
\* no Timeout, so client.Do does not return.
GAHangs ==
  /\ pc = "awaitGA"
  /\ pc' = "blocked"
  /\ UNCHANGED <<req, params, query, cid, w, posts, sendErr>>

\* Lines 258-274.
WriteBody ==
  /\ pc = "respond"
  /\ w' = [w EXCEPT !.status = 200,
                    !.header = SetHeader(w.header, ("Content-Type" :> SelectBody(query).contentType)),
                    !.body = Append(w.body, SelectBody(query).body)]
  /\ pc' = "done"
  /\ UNCHANGED <<req, params, query, cid, posts, sendErr>>

\* handler has returned; the server takes the next request.
Finish ==
  /\ pc = "done"
  /\ pc' = "idle"
  /\ req' = NoRequest
  /\ params' = << >>
  /\ query' = << >>
  /\ cid' = EmptyStr
  /\ w' = FreshWriter
  /\ posts' = << >>
  /\ sendErr' = "none"

Next ==
  \/ Receive
  \/ Redirect
  \/ AccountPage
  \/ BeginTracked
  \/ ExistingCID
  \/ NewCID
  \/ UUIDFails
  \/ SetHeaders
  \/ SkipTracking
  \/ PostHit
  \/ GAAnswers
  \/ GAFails
  \/ GAHangs
  \/ WriteBody
  \/ Finish

Spec == Init /\ [][Next]_vars

\* The handler's own steps (the goroutine serving the request is scheduled),
\* and the answers of the analytics endpoint when it gives one.
HandlerStep ==
  \/ Redirect
  \/ AccountPage
  \/ BeginTracked
  \/ ExistingCID
  \/ NewCID
  \/ UUIDFails
  \/ SetHeaders
  \/ SkipTracking
  \/ PostHit
  \/ WriteBody
  \/ Finish

\* The requests of the liveness check: the three routes, every cookie, at
\* most one query key, with and without a Referer.
LiveRequests ==
  [path : {<<"/">>, <<"/", "a">>, <<"/", "a", "/", "a">>},
   query : {q \in Queries : Cardinality(DOMAIN q) <= 1},
   referer : {EmptyStr, HttpScheme \o <<"b">>},
   cookie : Cookies, ua : {UserAgent}, ip : {RemoteAddr}, now : Times]

ReceiveLive ==
  /\ pc = "idle"
  /\ \E r \in LiveRequests : req' = r
  /\ pc' = "start"
  /\ UNCHANGED <<params, query, cid, w, posts, sendErr>>

LiveNext ==
  \/ ReceiveLive
  \/ HandlerStep
  \/ GAAnswers
  \/ GAFails
  \/ GAHangs

FairSpec ==
  /\ Init
  /\ [][LiveNext]_vars
  /\ WF_vars(HandlerStep)
  /\ WF_vars(GAAnswers \/ GAFails)

\* ------------------------------------------------------------- claims

\* The request is past routing and was routed to the tracking branch.
Tracked == pc \notin {"idle", "start"} /\ Len(params) = 2

\* The first segment of the URL path as sent.
AccountOf(r) == SplitN(Trim(r.path, Slash), Slash, 2)[1]

ReservedKeys == {"referer", "pixel", "gif", "flat", "flat-gif", "useReferer"}
FixedParams == {"session_id", "user_agent", "ip_address", "timestamp"}
LowerHex == {"0", "1", "2", "3", "4", "5", "6", "7", "8", "9", "a", "b", "c", "d", "e", "f"}

\* C1: a two-segment request gets exactly one body, the one of the first flag
\* present in the order pixel > gif > flat > flat-gif > default, with
\* image/gif for pixel, gif and flat-gif and image/svg+xml for flat and the
\* default; nothing of it depends on what sendToGA returned or on whether it
\* was called.
C1_BodyByFlagPriority ==
  /\ (Tracked /\ pc # "done") => w.body = << >>
  /\ (Tracked /\ pc = "done") =>
       /\ Len(w.body) = 1
       /\ <<w.body[1], w.header["Content-Type"]>> =
            IF "pixel" \in DOMAIN req.query THEN <<"pixel", "image/gif">>
            ELSE IF "gif" \in DOMAIN req.query THEN <<"badgeGif", "image/gif">>
            ELSE IF "flat" \in DOMAIN req.query THEN <<"badgeFlat", "image/svg+xml">>
            ELSE IF "flat-gif" \in DOMAIN req.query THEN <<"badgeFlatGif", "image/gif">>
            ELSE <<"badge", "image/svg+xml">>

\* C1's case: flat and flat-gif both present, the POST failed, the flat SVG
\* badge was written.
C1_Witness ==
  /\ pc = "done"
  /\ Len(params) = 2
  /\ DOMAIN req.query = {"flat", "flat-gif"}
  /\ sendErr = "error"
  /\ w.body = <<"badgeFlat">>

\* C2: with a cid cookie on the request, the identity is the cookie's value,
\* every payload dispatched carries it as client_id, and no cookie is set.
C2_CookieIsClientID ==
  (Tracked /\ req.cookie.present) =>
    /\ w.cookies = << >>
    /\ pc # "identity" => cid = req.cookie.value
    /\ \A i \in 1..Len(posts) : posts[i].body.ClientID = req.cookie.value

\* C2's case: a request with a cookie was tracked and answered.
C2_Witness ==
  /\ pc = "done"
  /\ req.cookie.present
  /\ Len(posts) = 1
  /\ posts[1].body.ClientID = <<"c", "1">>

\* C3: without a cid cookie and with generateUUID succeeding, one cid cookie
\* is set, its value 32 lower-case hex characters, its Path "/" followed by
\* the account segment; the same value is the CID header and the client_id
\* of the payload dispatched.
C3_NewIdentity ==
  (Tracked /\ ~req.cookie.present /\ pc # "identity" /\ cid # EmptyStr) =>
    /\ Len(cid) = 32
    /\ \A i \in 1..Len(cid) : cid[i] \in LowerHex
    /\ w.cookies = <<[Name |-> "cid", Value |-> cid, Path |-> <<Slash>> \o AccountOf(req)]>>
    /\ pc \notin {"track"} => w.header["CID"] = cid
    /\ pc \in {"awaitGA", "blocked", "respond", "done"} =>
         /\ Len(posts) = 1
         /\ posts[1].body.ClientID = w.cookies[1].Value

\* C3's case: a request without a cookie, rewritten by useReferer, was
\* given a new identity and answered.
C3_Witness ==
  /\ pc = "done"
  /\ ~req.cookie.present
  /\ Len(w.cookies) = 1
  /\ Len(posts) = 1
  /\ "useReferer" \in DOMAIN req.query
  /\ req.path = <<"/", "a", "a">>
  /\ params = <<<<"a", "a">>, <<"b">>>>

\* C4: in the event of every payload dispatched, the parameters are exactly
\* the four fixed ones plus custom_<k> for every query key k that is not
\* reserved, each with the first value of k; no reserved key has one.
C4_CustomParams ==
  \A i \in 1..Len(posts) :
    LET P == posts[i].body.Events[1].Params
    IN /\ DOMAIN P = FixedParams \cup {"custom_" \o k : k \in DOMAIN query \ ReservedKeys}
       /\ \A k \in DOMAIN query \ ReservedKeys : P["custom_" \o k] = query[k][1]
       /\ \A k \in ReservedKeys : ("custom_" \o k) \notin DOMAIN P

\* C4's case: a query with the reserved referer (from the header) and pixel,
\* and the two-valued src, was dispatched.
C4_Witness ==
  /\ Len(posts) = 1
  /\ DOMAIN query = {"pixel", "src", "referer"}
  /\ posts[1].body.Events[1].Params["custom_src"] = <<"n">>

\* The Referer value with its http:// or https:// scheme removed.
SchemeRemoved(ref) ==
  IF HasPrefix(ref, HttpsScheme) THEN SubSeq(ref, Len(HttpsScheme) + 1, Len(ref))
  ELSE IF HasPrefix(ref, HttpScheme) THEN SubSeq(ref, Len(HttpScheme) + 1, Len(ref))
  ELSE ref

\* C5: for a non-root request with useReferer and a non-empty Referer, the
\* page segment is the Referer without its scheme, whatever the number of
\* segments of the URL path; without a Referer the segments are those of the
\* URL path.  Stated for the Referers that have something after the scheme
\* (for a bare "http://" the handler keeps the URL path, lines 210-214).
C5_RefererIsPage ==
  (pc \notin {"idle", "start"} /\ AccountOf(req) # EmptyStr) =>
    /\ ("useReferer" \in DOMAIN req.query /\ SchemeRemoved(req.referer) # EmptyStr) =>
         /\ Len(params) = 2
         /\ params[2] = SchemeRemoved(req.referer)
    /\ req.referer = EmptyStr => params = SplitN(Trim(req.path, Slash), Slash, 2)

C7_PayloadCarriesPage ==
  \A i \in 1..Len(posts) :
    LET P == posts[i].body.Events[1].Params
        forms == {params[2],
                  params[1] \o <<Slash>> \o params[2],
                  <<Slash>> \o params[1] \o <<Slash>> \o params[2]}
    IN \/ posts[i].body.ClientID \in forms
       \/ \E n \in DOMAIN P : P[n] \in forms

\* C8 as stated: the query key custom_src reaches the event under the same
\* name, with its first value.
C8_CustomKeyKeepsName ==
  \A i \in 1..Len(posts) :
    LET P == posts[i].body.Events[1].Params
    IN "custom_src" \in DOMAIN req.query =>
         /\ "custom_src" \in DOMAIN P
         /\ P["custom_src"] = req.query["custom_src"][1]

\* C8, amended: the query key custom_src reaches the event as
\* custom_custom_src with its first value; the event has a parameter named
\* custom_src only when the query has the key src, and then with the first
\* value of src.
C8_CustomKeyPrefixedAgain ==
  \A i \in 1..Len(posts) :
    LET P == posts[i].body.Events[1].Params
    IN "custom_src" \in DOMAIN req.query =>
         /\ "custom_custom_src" \in DOMAIN P
         /\ P["custom_custom_src"] = req.query["custom_src"][1]
         /\ "custom_src" \in DOMAIN P <=> "src" \in DOMAIN req.query
         /\ "src" \in DOMAIN req.query => P["custom_src"] = req.query["src"][1]

\* C8's case: /a/a?flat&custom_src=m was dispatched and answered with the
\* flat badge.
C8_Witness ==
  /\ pc = "done"
  /\ DOMAIN req.query = {"flat", "custom_src"}
  /\ Len(posts) = 1
  /\ w.body = <<"badgeFlat">>

\* C9: every two-segment request eventually has its body written, whether
\* the endpoint answers, fails or never answers, and a delivery error never
\* reaches the client.
C9_BodyAlwaysWritten ==
  /\ (pc = "identity") ~> (pc = "done" /\ Len(w.body) = 1)
  /\ [](sendErr = "error" => w.status \in {0, 200})

\* rand.Read failed: no cookie on the request and no identity.
GenerationFailed == ~req.cookie.present /\ cid = EmptyStr

\* What holds of the POSTs of a request at every moment: at most one, of one
\* page_view event, issued with the headers and the cookie set, and returned
\* before a body is written.
PostOrdering ==
  /\ Len(posts) <= 1
  /\ \A i \in 1..Len(posts) :
       /\ Len(posts[i].body.Events) = 1
       /\ posts[i].body.Events[1].Name = "page_view"
       /\ posts[i].method = "POST"
  /\ posts # << >> =>
       /\ {"Cache-Control", "Expires", "CID"} \subseteq DOMAIN w.header
       /\ ~req.cookie.present => Len(w.cookies) = 1
  /\ (posts # << >> /\ w.body # << >>) => sendErr # "none"

\* C10 as stated: a two-segment request whose identity generation does not
\* fail issues exactly one POST of one page_view event, after the cookie
\* and the headers are set and before the body is written, and never a
\* second one.
C10_OnePostPerRequest ==
  Tracked =>
    /\ PostOrdering
    /\ (pc \in {"awaitGA", "blocked", "respond", "done"} /\ ~GenerationFailed) => Len(posts) = 1

\* C10, amended: the request issues that one POST when its identity is not
\* empty (a cid cookie with a non-empty value, or a generated one), and none
\* when it is empty.
C10_OnePostPerIdentity ==
  Tracked =>
    /\ PostOrdering
    /\ (pc \in {"awaitGA", "blocked", "respond", "done"} /\ cid # EmptyStr) => Len(posts) = 1
    /\ (pc # "identity" /\ cid = EmptyStr) => posts = << >>

\* C10's case: a request without a cookie was tracked, the POST failed, and
\* the body was written after it.
C10_Witness ==
  /\ pc = "done"
  /\ Len(params) = 2
  /\ ~req.cookie.present
  /\ Len(posts) = 1
  /\ sendErr = "error"
  /\ Len(w.body) = 1

====
